---- MODULE Spec2Model ----
(***************************************************************************)
(* Model of random-show-themes: main/run/result_loop of src/src/main.rs    *)
(* and output_theme/smart_append of src/src/lib.rs.                        *)
(*                                                                         *)
(* One behaviour is one execution of the program.  Init draws the inputs   *)
(* (the parsed dictionary, the parsed list, the validated result count,   *)
(* the --hard-fail flag and the output mode); the actions are the          *)
(* sections of run and one pass of the inner `loop` of result_loop.       *)
(* The random source is the choice of a list position (list.choose) and    *)
(* of a theme position (themes.choose).  A write to standard output may    *)
(* fail: through the csv writer the failure is returned (write_record /    *)
(* flush return Err), through println! it is a panic, which ends the       *)
(* process with status 101, as does the unwrap of create_table on a        *)
(* --table-width that does not fit the u16 of the terminal width.  What a  *)
(* failed write left in a buffer is written again when the csv writer is   *)
(* dropped or when the process ends, so a row whose write failed may still *)
(* reach standard output, and a table whose write failed may reach it in   *)
(* part or in full.                                                        *)
(***************************************************************************)
EXTENDS Integers, Sequences, FiniteSets, TLC

\* ---------------------------------------------------------------- bounds
MaxId == 2          \* identifiers are 1..MaxId
MaxLen == 2         \* longest candidate list
MaxNumber == 2      \* largest requested number of results
MaxDraws == 2       \* the draw counter saturates here

\* the largest value of the u16 that create_table parses --table-width into
MaxWidth == 65535

\* the exit status of a process that panicked
PanicStatus == 101

Ids == 1..MaxId

\* ---------------------------------------------------------------- shows
\* struct Show (the id and url fields are never read by run/result_loop)
Show(t, op, ed, st) ==
    [title |-> t, opening_themes |-> op, ending_themes |-> ed, other_soundtrack |-> st]

Shows ==
    { Show("N", <<>>, <<>>, <<>>),
      Show("X", <<"OP1">>, <<>>, <<>>),
      Show("Y", <<>>, <<"ED1">>, <<>>),
      Show("Z", <<"A">>, <<"A">>, <<"A", "B">>) }

\* HashMap<usize, Show>: a function from a set of keys to shows
Dictionaries == UNION { [S -> Shows] : S \in SUBSET Ids }

\* Vec<usize>.  list.choose draws any position, so a list and its
\* permutations have the same runs up to the numbering of the positions:
\* the lists are enumerated in non-decreasing order.
Lists == { l \in UNION { [1..n -> Ids] : n \in 0..MaxLen } :
             \A k \in 1..Len(l) - 1 : l[k] <= l[k + 1] }

OutputModes == {"Table", "Readable", "CSV"}

\* ---------------------------------------------------------------- helpers
\* Vec::contains
Contains(s, x) == \E k \in 1..Len(s) : s[k] = x

\* the set of values of a sequence
Range(s) == { s[k] : k \in 1..Len(s) }

Min(a, b) == IF a < b THEN a ELSE b

\* a variant that assigns other instead of appending it
smart_appendAssign(first, other) ==
    IF other # <<>> THEN other ELSE first

\* smart_append: appends other to first if other is not empty
smart_append(first, other) ==
    IF other # <<>> THEN first \o other ELSE first

\* result_loop, lines 145-148: the pool of all themes of a show
Themes(show) ==
    smart_append(smart_append(show.opening_themes, show.ending_themes),
                 show.other_soundtrack)

\* a variant that tests the ending themes first
song_typeEndingFirst(choice, show) ==
    IF Contains(show.ending_themes, choice) THEN "ED"
    ELSE IF Contains(show.opening_themes, choice) THEN "OP"
    ELSE "ST"

\* output_theme, lines 197-203
song_type(choice, show) ==
    IF Contains(show.opening_themes, choice) THEN "OP"
    ELSE IF Contains(show.ending_themes, choice) THEN "ED"
    ELSE "ST"

\* the header of the table and of the csv output
HeaderRow == [kind |-> "header", id |-> 0, fields |-> <<"Song", "Show", "Type">>]

\* output_theme, lines 205-222: the row handed to the sink in each mode
\* (id is the dictionary key of the show, kept to tell rows of shows apart)
ThemeRow(choice, show, id, mode) ==
    [kind |-> "row", id |-> id,
     fields |-> CASE mode = "Table" -> <<choice, show.title, song_type(choice, show)>>
                  [] mode = "Readable" -> <<choice, song_type(choice, show), show.title>>
                  [] mode = "CSV" -> <<choice, song_type(choice, show), show.title>>]

\* a write of a row to standard output: it succeeds ("written"), or it
\* fails and the row is lost ("lost"), or it fails and the row, still in the
\* buffer of the writer, gets through when the writer is dropped or the
\* process ends ("late")
StdoutOutcomes == {"written", "lost", "late"}

\* the write reported an error
Failed(o) == o # "written"

\* the row reached standard output
Delivered(o) == o # "lost"

\* the outcomes of the write of output_theme in each mode: the csv writer
\* (lines 218-220) and println! (line 215) write to standard output,
\* add_row (line 208) only extends the table in memory
SinkOutcomes(mode) == IF mode = "Table" THEN {"written"} ELSE StdoutOutcomes

\* --table-width as given: 0 stands for no option; clap accepts it only
\* with --table, pos_int_validate accepts any non-zero usize
Widths(mode) == IF mode = "Table" THEN {0, MaxWidth, MaxWidth + 1} ELSE {0}

\* a variant that looks at the last iteration only
LoopOutcomeLast(lr) == IF lr # <<>> /\ lr[Len(lr)] = "Err" THEN "Err" ELSE "Ok"

\* result_loop, lines 172-175
LoopOutcome(lr) == IF Contains(lr, "Err") THEN "Err" ELSE "Ok"

\* ---------------------------------------------------------------- state
VARIABLES
    dictionary,         \* run: the parsed dictionary
    list,               \* run: the parsed list
    requested,          \* run: number_of_results as parsed (line 30)
    hard_fail,          \* run: --hard-fail
    output_mode,        \* run: OutputMode::from_matches
    table_width,        \* create_table: the value of --table-width (0: not given)
    number_of_results,  \* run: number_of_results after lines 49-62
    pc,                 \* position in run / result_loop
    prev_res,           \* result_loop: values already drawn
    loop_res,           \* result_loop: one "Ok"/"Err" per finished iteration
    res,                \* result_loop: position chosen by the last list.choose (0: none yet)
    draws,              \* number of list.choose calls so far, saturating at MaxDraws
    chosen,             \* result_loop: position chosen by themes.choose in the last pass (0: none)
    table,              \* run: Option<Table>
    stdout,             \* what was written to standard output
    write_errors,       \* number of writes to standard output that failed
    result,             \* what result_loop returned ("none" before it returns)
    exit_code           \* process exit code (-1 while running)

vars == <<dictionary, list, requested, hard_fail, output_mode, table_width,
          number_of_results,
          pc, prev_res, loop_res, res, draws, chosen, table, stdout, write_errors,
          result, exit_code>>

inputs == <<dictionary, list, requested, hard_fail, output_mode, table_width>>

NoTable == [some |-> FALSE, rows |-> <<>>]

Init ==
    /\ dictionary \in Dictionaries
    /\ list \in Lists
    /\ requested \in 1..MaxNumber
    /\ hard_fail \in BOOLEAN
    /\ output_mode \in OutputModes
    /\ table_width \in Widths(output_mode)
    /\ number_of_results = requested
    /\ pc = "check"
    /\ prev_res = <<>>
    /\ loop_res = <<>>
    /\ res = 0
    /\ draws = 0
    /\ chosen = 0
    /\ table = NoTable
    /\ stdout = <<>>
    /\ write_errors = 0
    /\ result = "none"
    /\ exit_code = -1

\* ---------------------------------------------------------------- run
\* main, lines 20-23, applied to a return of run
Exit(r) ==
    /\ pc' = "exit"
    /\ exit_code' = IF r = "Err" THEN 1 ELSE 0

\* a panic (the unwrap of lib.rs line 179, a println! that cannot write)
\* ends the process where it stands
Panic ==
    /\ pc' = "exit"
    /\ exit_code' = PanicStatus

\* a variant without the check of the list
CheckInputsDictOnly ==
    /\ pc = "check"
    /\ IF DOMAIN dictionary = {}
       THEN Exit("Err")
       ELSE pc' = "lower" /\ UNCHANGED exit_code
    /\ UNCHANGED <<inputs, number_of_results, prev_res, loop_res, res, draws, chosen,
                   table, stdout, write_errors, result>>

\* run, lines 41-47
CheckInputs ==
    /\ pc = "check"
    /\ IF DOMAIN dictionary = {} \/ list = <<>>
       THEN Exit("Err")
       ELSE pc' = "lower" /\ UNCHANGED exit_code
    /\ UNCHANGED <<inputs, number_of_results, prev_res, loop_res, res, draws, chosen,
                   table, stdout, write_errors, result>>

\* a variant that never lowers the count
LowerCountKeep ==
    /\ pc = "lower"
    /\ IF Len(list) < number_of_results /\ hard_fail
       THEN Exit("Err")
       ELSE pc' = "before" /\ UNCHANGED exit_code
    /\ UNCHANGED <<inputs, number_of_results, prev_res, loop_res, res, draws, chosen,
                   table, stdout, write_errors, result>>

\* a variant that lowers the count with --hard-fail too
LowerCountNoAbort ==
    /\ pc = "lower"
    /\ number_of_results' = IF Len(list) < number_of_results
                            THEN Len(list) ELSE number_of_results
    /\ pc' = "before"
    /\ UNCHANGED <<inputs, prev_res, loop_res, res, draws, chosen, table, stdout, write_errors, result,
                   exit_code>>

\* run, lines 49-62
LowerCount ==
    /\ pc = "lower"
    /\ IF Len(list) < number_of_results
       THEN IF hard_fail
            THEN Exit("Err") /\ UNCHANGED number_of_results
            ELSE /\ number_of_results' = Len(list)
                 /\ pc' = "before"
                 /\ UNCHANGED exit_code
       ELSE /\ pc' = "before"
            /\ UNCHANGED <<number_of_results, exit_code>>
    /\ UNCHANGED <<inputs, prev_res, loop_res, res, draws, chosen, table, stdout, write_errors, result>>

\* run, lines 66-92
BeforeLoop ==
    /\ pc = "before"
    /\ CASE output_mode = "Table" ->
              IF table_width > MaxWidth
              THEN Panic /\ UNCHANGED <<table, stdout, write_errors>>
              ELSE /\ table' = [some |-> TRUE, rows |-> <<HeaderRow>>]
                   /\ pc' = "loop"
                   /\ UNCHANGED <<stdout, write_errors, exit_code>>
         [] output_mode = "Readable" ->
              /\ pc' = "loop"
              /\ UNCHANGED <<table, stdout, write_errors, exit_code>>
         [] output_mode = "CSV" ->
              \E o \in SinkOutcomes(output_mode) :
                 /\ stdout' = IF Delivered(o) THEN Append(stdout, HeaderRow) ELSE stdout
                 /\ write_errors' = write_errors + (IF Failed(o) THEN 1 ELSE 0)
                 /\ IF Failed(o)
                    THEN Exit("Err")
                    ELSE pc' = "loop" /\ UNCHANGED exit_code
                 /\ UNCHANGED table
    /\ UNCHANGED <<inputs, number_of_results, prev_res, loop_res, res, draws, chosen, result>>

\* ---------------------------------------------------------------- result_loop
\* a variant that records the failures only
PushOnlyErr(a) ==
    /\ loop_res' = IF a = "Err" THEN Append(loop_res, a) ELSE loop_res
    /\ pc' = IF a = "Err" /\ Len(loop_res) + 1 = number_of_results
             THEN "match" ELSE "loop"

\* a variant whose `for` runs one iteration too many
PushOffByOne(a) ==
    /\ loop_res' = Append(loop_res, a)
    /\ pc' = IF Len(loop_res) = number_of_results THEN "match" ELSE "loop"

\* line 170 and the `for` of line 135: the iteration ends with outcome a
Push(a) ==
    /\ loop_res' = Append(loop_res, a)
    /\ pc' = IF Len(loop_res) + 1 = number_of_results THEN "match" ELSE "loop"

\* a variant that records a failure where the loop should go round again
AgainPushErr ==
    /\ loop_res' = Append(loop_res, "Err")
    /\ pc' = IF Len(loop_res) + 1 = number_of_results THEN "match" ELSE "loop"

\* the inner loop goes round again
Again == UNCHANGED <<loop_res, pc>>

\* output_theme, lines 205-224, with the outcome o of the write
output_theme(choice, show, id, o) ==
    CASE output_mode = "Table" ->
           /\ table' = [table EXCEPT !.rows = Append(@, ThemeRow(choice, show, id, output_mode))]
           /\ UNCHANGED <<stdout, write_errors>>
      [] output_mode = "Readable" ->
           /\ stdout' = IF Delivered(o)
                        THEN Append(stdout, ThemeRow(choice, show, id, output_mode))
                        ELSE stdout
           /\ write_errors' = write_errors + (IF Failed(o) THEN 1 ELSE 0)
           /\ UNCHANGED table
      [] output_mode = "CSV" ->
           /\ stdout' = IF Delivered(o)
                        THEN Append(stdout, ThemeRow(choice, show, id, output_mode))
                        ELSE stdout
           /\ write_errors' = write_errors + (IF Failed(o) THEN 1 ELSE 0)
           /\ UNCHANGED table

\* a failed write of println! (line 215) panics; the csv writer returns it
Panics(o) == output_mode = "Readable" /\ Failed(o)

\* a variant that compares with the last visited value only
FreshLastOnly(v) == prev_res = <<>> \/ prev_res[Len(prev_res)] # v

\* a variant that takes every value for a new one
FreshNoCheck(v) == TRUE

\* the condition of line 141
Fresh(v) == ~Contains(prev_res, v)

\* a variant that compares with one more than the length
ExhaustedOffByOne == Len(prev_res) = Len(list) + 1

\* a variant with <= for ==
ExhaustedLe == Len(prev_res) <= Len(list)

\* the condition of line 163
Exhausted == Len(prev_res) = Len(list)

\* a variant that looks the value up before marking it visited, so that a
\* value absent from the dictionary is never marked
DrawLookupFirst(i) ==
    /\ pc = "loop"
    /\ i \in 1..Len(list)
    /\ res' = i
    /\ draws' = Min(draws + 1, MaxDraws)
    /\ LET v == list[i] IN
       IF Fresh(v)
       THEN IF v \in DOMAIN dictionary
            THEN /\ prev_res' = Append(prev_res, v)
                 /\ LET show == dictionary[v]
                        themes == Themes(show)
                    IN  IF themes # <<>>
                        THEN \E j \in 1..Len(themes), o \in SinkOutcomes(output_mode) :
                                /\ chosen' = j
                                /\ output_theme(themes[j], show, v, o)
                                /\ IF Panics(o)
                                   THEN Panic /\ UNCHANGED loop_res
                                   ELSE /\ Push(IF Failed(o) THEN "Err" ELSE "Ok")
                                        /\ UNCHANGED exit_code
                        ELSE /\ Again /\ chosen' = 0
                             /\ UNCHANGED <<table, stdout, write_errors, exit_code>>
            ELSE /\ Again /\ chosen' = 0
                 /\ UNCHANGED <<prev_res, table, stdout, write_errors, exit_code>>
       ELSE /\ chosen' = 0
            /\ UNCHANGED <<prev_res, table, stdout, write_errors, exit_code>>
            /\ IF Exhausted THEN Push("Err") ELSE Again
    /\ UNCHANGED <<inputs, number_of_results, result>>

\* result_loop, lines 136-170: one pass of the inner loop, list.choose
\* having picked position i
Draw(i) ==
    /\ pc = "loop"
    /\ i \in 1..Len(list)
    /\ res' = i
    /\ draws' = Min(draws + 1, MaxDraws)
    /\ LET v == list[i] IN
       IF Fresh(v)
       THEN /\ prev_res' = Append(prev_res, v)
            /\ IF v \in DOMAIN dictionary
               THEN LET show == dictionary[v]
                        themes == Themes(show)
                    IN  IF themes # <<>>
                        THEN \E j \in 1..Len(themes), o \in SinkOutcomes(output_mode) :
                                /\ chosen' = j
                                /\ output_theme(themes[j], show, v, o)
                                /\ IF Panics(o)
                                   THEN Panic /\ UNCHANGED loop_res
                                   ELSE /\ Push(IF Failed(o) THEN "Err" ELSE "Ok")
                                        /\ UNCHANGED exit_code
                        ELSE /\ Again /\ chosen' = 0
                             /\ UNCHANGED <<table, stdout, write_errors, exit_code>>
               ELSE /\ Again /\ chosen' = 0
                    /\ UNCHANGED <<table, stdout, write_errors, exit_code>>
       ELSE /\ chosen' = 0
            /\ UNCHANGED <<prev_res, table, stdout, write_errors, exit_code>>
            /\ IF Exhausted THEN Push("Err") ELSE Again
    /\ UNCHANGED <<inputs, number_of_results, result>>

\* result_loop, lines 172-175, and run, lines 94-108
Match ==
    /\ pc = "match"
    /\ result' = LoopOutcome(loop_res)
    /\ IF LoopOutcome(loop_res) = "Err" /\ hard_fail
       THEN Exit("Err")
       ELSE pc' = "after" /\ UNCHANGED exit_code
    /\ UNCHANGED <<inputs, number_of_results, prev_res, loop_res, res, draws, chosen,
                   table, stdout, write_errors>>

\* run, lines 110-122
AfterLoop ==
    /\ pc = "after"
    /\ IF output_mode = "Table"
       THEN \/ /\ stdout' = stdout \o table.rows
               /\ Exit("Ok")
               /\ UNCHANGED write_errors
            \/ \E n \in 0..Len(table.rows) :
                  /\ stdout' = stdout \o SubSeq(table.rows, 1, n)
                  /\ write_errors' = write_errors + 1
                  /\ Panic
       ELSE Exit("Ok") /\ UNCHANGED <<stdout, write_errors>>
    /\ UNCHANGED <<inputs, number_of_results, prev_res, loop_res, res, draws, chosen,
                   table, result>>

Next ==
    \/ CheckInputs
    \/ LowerCount
    \/ BeforeLoop
    \/ \E i \in 1..MaxLen : Draw(i)
    \/ Match
    \/ AfterLoop

Spec == Init /\ [][Next]_vars

\* The random source eventually draws every candidate position, and the
\* straight-line sections of run are executed.
FairSpec ==
    /\ Spec
    /\ \A i \in 1..MaxLen : WF_vars(Draw(i))
    /\ WF_vars(CheckInputs) /\ WF_vars(LowerCount) /\ WF_vars(BeforeLoop)
    /\ WF_vars(Match) /\ WF_vars(AfterLoop)

TypeOK ==
    /\ pc \in {"check", "lower", "before", "loop", "match", "after", "exit"}
    /\ number_of_results \in 1..MaxNumber
    /\ draws \in 0..MaxDraws
    /\ exit_code \in {-1, 0, 1, PanicStatus}
    /\ write_errors \in 0..MaxNumber + 1
    /\ result \in {"none", "Ok", "Err"}

\* ---------------------------------------------------------------- vocabulary of the properties
\* the data rows handed to the sink so far, in order
SelectRows(s) == SelectSeq(s, LAMBDA r : r.kind = "row")
Emitted == SelectRows(IF output_mode = "Table" THEN table.rows ELSE stdout)

\* the show a candidate value leads to has at least one theme
Themed(v) == v \in DOMAIN dictionary /\ Themes(dictionary[v]) # <<>>

\* the list holds some value at two positions
HasDuplicates == Cardinality(Range(list)) < Len(list)

\* the checks of lines 41-47 passed
ConfigOK == DOMAIN dictionary # {} /\ list # <<>>

\* some write to standard output reported an error
SinkFailed == write_errors > 0

\* ---------------------------------------------------------------- C1
\* C1: for every non-empty list and non-empty dictionary, a run of
\* result_loop that has started comes to its end, given that every list
\* position keeps being drawn.
C1_LoopTerminates == (pc = "loop") ~> (pc # "loop")

\* ---------------------------------------------------------------- C2
\* C2: when the list holds duplicate values and every distinct value has
\* been visited, the next draw (necessarily of a visited value) is recorded
\* as the exhaustion failure; so [1,1,1] over a themeless show 1 ends with
\* that failure after one visit.
C2_DuplicatesExhaust ==
    [][(pc = "loop" /\ HasDuplicates /\ Range(prev_res) = Range(list))
          => loop_res' = Append(loop_res, "Err")]_vars

\* ---------------------------------------------------------------- C3
\* C3: no two rows handed to the sink in one run are of the same show.
C3_DistinctShows ==
    \A a, b \in 1..Len(Emitted) : a # b => Emitted[a].id # Emitted[b].id

\* the value of a show whose row was emitted was drawn a second time, from
\* a list that holds it twice, and no second row followed
C3_Witness ==
    /\ HasDuplicates /\ pc = "loop" /\ draws >= 2
    /\ Len(Emitted) = 1 /\ list[res] = Emitted[1].id

\* ---------------------------------------------------------------- C4
\* every show the list leads to has a theme, and the count asked of the
\* loop is at most the number of distinct such shows
C4_Pre ==
    /\ \A v \in Range(list) : v \in DOMAIN dictionary => Themed(v)
    /\ number_of_results <= Cardinality({ v \in Range(list) : Themed(v) })

\* C4: under C4_Pre the loop comes to its end unless a write fails with a
\* panic, and if no write failed it returns Ok with exactly
\* number_of_results rows emitted.
C4_FullSuccess ==
    /\ [](result # "none" /\ C4_Pre /\ ~SinkFailed
            => result = "Ok" /\ Len(Emitted) = number_of_results)
    /\ ((pc = "loop" /\ C4_Pre) ~> (result # "none" \/ exit_code = PanicStatus))

\* the scenario of the claim: shows X and Y, list [1,2], two rows
C4_Witness ==
    /\ result = "Ok" /\ C4_Pre /\ ~SinkFailed
    /\ list = <<1, 2>> /\ number_of_results = 2 /\ Len(Emitted) = 2
    /\ 1 \in DOMAIN dictionary /\ dictionary[1].title = "X"
    /\ 2 \in DOMAIN dictionary /\ dictionary[2].title = "Y"

\* ---------------------------------------------------------------- C5
\* sampling is about to start or has started
Sampling == pc \in {"before", "loop", "match", "after"}

\* C5 (as stated): a requested count above the number of distinct values of
\* the list is lowered to that number without --hard-fail, and the run
\* aborts with it, before sampling.
C5_LowersToDistinct ==
    requested > Cardinality(Range(list)) =>
        /\ Sampling => ~hard_fail /\ number_of_results = Cardinality(Range(list))
        /\ (ConfigOK /\ hard_fail /\ pc = "exit") => exit_code = 1 /\ draws = 0

\* C5 (amended): a requested count above the length of the list is lowered
\* to that length without --hard-fail, and the run aborts with it, before
\* sampling; a count within the length is left as it is.
C5_LowersToLength ==
    /\ requested > Len(list) =>
          /\ Sampling => ~hard_fail /\ number_of_results = Len(list)
          /\ (ConfigOK /\ hard_fail /\ pc = "exit") => exit_code = 1 /\ draws = 0
    /\ requested <= Len(list) => number_of_results = requested

\* the loop is entered with the count lowered to the length of the list
C5_Witness ==
    /\ pc = "loop" /\ ~hard_fail
    /\ requested > Len(list) /\ number_of_results = Len(list)

\* ---------------------------------------------------------------- C6
\* a draw of a visited value with every list.len() values visited: the
\* branch of lines 163-167
ExhaustionStep ==
    /\ pc = "loop" /\ Len(prev_res) = Len(list)
    /\ draws' # draws \/ res' # res \/ loop_res' # loop_res

\* C6 (as stated): the exhaustion failure is recorded and ends the whole
\* sampling: no further iteration, no further draw.
C6_ExhaustionStopsAll ==
    [][ExhaustionStep => loop_res' = Append(loop_res, "Err") /\ pc' # "loop"]_vars

\* C6 (amended): the exhaustion failure is recorded and ends that iteration
\* only; the loop goes on to the next iteration unless this was the last
\* one, nothing is emitted and nothing more is visited.
C6_ExhaustionEndsIteration ==
    [][ExhaustionStep =>
          /\ loop_res' = Append(loop_res, "Err")
          /\ pc' = IF Len(loop_res') = number_of_results THEN "match" ELSE "loop"
          /\ prev_res' = prev_res /\ table' = table /\ stdout' = stdout]_vars

\* two iterations in a row ended with the exhaustion failure
C6_Witness ==
    /\ Len(prev_res) = Len(list) /\ ~SinkFailed
    /\ \E k \in 1..Len(loop_res) - 1 : loop_res[k] = "Err" /\ loop_res[k + 1] = "Err"

\* ---------------------------------------------------------------- C7
\* the write of the row by output_theme failed
SinkErrorStep ==
    /\ pc = "loop"
    /\ write_errors' = write_errors + 1

\* C7: a sink error is the failure of its iteration only: the loop goes on
\* with the next iteration, and run aborts for --hard-fail only once the
\* loop has run all its iterations.
C7_SinkErrorPerIteration ==
    /\ [][SinkErrorStep =>
             /\ loop_res' = Append(loop_res, "Err")
             /\ exit_code' = -1
             /\ Len(loop_res') < number_of_results => pc' = "loop"]_vars
    /\ [](pc = "exit" /\ draws > 0 => Len(loop_res) = number_of_results)

\* ---------------------------------------------------------------- C8
\* C8: result_loop returns Err exactly when some iteration recorded a
\* failure (exhaustion or a failed write), and Ok otherwise.
C8_OutcomeIsOr ==
    result # "none" =>
        /\ result \in {"Ok", "Err"}
        /\ result = "Err" <=> (\E k \in 1..Len(loop_res) : loop_res[k] = "Err")

\* a failure in the first iteration, a success in the last
C8_Witness ==
    /\ result = "Err" /\ Len(loop_res) >= 2
    /\ loop_res[1] = "Err" /\ loop_res[Len(loop_res)] = "Ok"

\* ---------------------------------------------------------------- C9
\* the table was rendered, what was emitted is on standard output
Finalized ==
    /\ output_mode = "Table" => stdout = table.rows
    /\ \A k \in 1..Len(Emitted) : Contains(stdout, Emitted[k])

\* C9: past the configuration checks a run without
\* --hard-fail exits with 0 whatever failed, its output finalized; with
\* --hard-fail it exits with 1 whenever something failed.
C9_ExitCode ==
    (pc = "exit" /\ ConfigOK) =>
        /\ ~hard_fail => exit_code = 0 /\ Finalized
        /\ hard_fail => (exit_code = 1 <=> (requested > Len(list) \/ result # "Ok"))

\* ---------------------------------------------------------------- C10
\* C10: with an empty dictionary or an empty list run fails at the checks,
\* with or without --hard-fail: no draw, no header, no row.
C10_EmptyInputFatal ==
    (DOMAIN dictionary = {} \/ list = <<>>) =>
        /\ pc \in {"check", "exit"}
        /\ pc = "exit" => exit_code = 1
        /\ draws = 0 /\ prev_res = <<>> /\ loop_res = <<>> /\ result = "none"
        /\ table = NoTable /\ stdout = <<>>

\* the run failed on an empty list without --hard-fail
C10_Witness ==
    /\ pc = "exit" /\ exit_code = 1 /\ ~hard_fail
    /\ list = <<>> /\ DOMAIN dictionary # {}
\* ---------------------------------------------------------------- C11
\* the song and the type of a row, where output_theme puts them
RowSong(r) == r.fields[1]
RowType(r) == IF output_mode = "Table" THEN r.fields[3] ELSE r.fields[2]

\* the last pass chose a theme (position chosen) and its row was emitted
LastRowEmitted ==
    /\ chosen # 0 /\ Emitted # <<>>
    /\ Emitted[Len(Emitted)].id = list[res]

LastRow == Emitted[Len(Emitted)]

\* C11: the type of every emitted row is OP if its song is among the
\* opening themes of its show, else ED if it is among the ending themes,
\* else ST: a song of both the opening list and another list is OP from
\* whichever position it was chosen.
C11_ClassifyFirstMatch ==
    \A k \in 1..Len(Emitted) :
        LET r == Emitted[k]
            show == dictionary[r.id]
        IN  RowType(r) =
               IF RowSong(r) \in Range(show.opening_themes) THEN "OP"
               ELSE IF RowSong(r) \in Range(show.ending_themes) THEN "ED"
               ELSE "ST"

\* song "A" of show Z, chosen at the position of the ending list, is OP
C11_Witness ==
    /\ LastRowEmitted /\ chosen = 2
    /\ dictionary[list[res]].title = "Z"
    /\ RowSong(LastRow) = "A" /\ RowType(LastRow) = "OP"
    /\ "A" \in Range(dictionary[list[res]].ending_themes)

\* ---------------------------------------------------------------- C12
\* unconditional concatenation of the three lists of a show
Concat(show) == show.opening_themes \o show.ending_themes \o show.other_soundtrack

\* the theme lists of the shows, as arguments of smart_append
ThemeLists == UNION { {sh.opening_themes, sh.ending_themes, sh.other_soundtrack,
                       sh.opening_themes \o sh.ending_themes} : sh \in Shows }

\* C12: smart_append(first, other) is first followed by other, also for
\* an empty other, and leaves the lists of the show as they are; so the
\* pool of a show is opening ++ ending ++ other, and the song of a row is
\* the element of that concatenation at the chosen position.
C12_AppendIsConcat ==
    /\ [](/\ \A a, b \in ThemeLists : smart_append(a, b) = a \o b
          /\ smart_append(<<1, 2, 3>>, <<4, 5, 6>>) = <<1, 2, 3, 4, 5, 6>>
          /\ \A k \in DOMAIN dictionary : Themes(dictionary[k]) = Concat(dictionary[k])
          /\ LastRowEmitted =>
                /\ chosen <= Len(Concat(dictionary[list[res]]))
                /\ RowSong(LastRow) = Concat(dictionary[list[res]])[chosen])
    /\ [][dictionary' = dictionary]_vars

\* song "B" of show Z chosen at position 4, after the three "A"
C12_Witness ==
    /\ LastRowEmitted /\ chosen = 4
    /\ dictionary[list[res]].title = "Z" /\ RowSong(LastRow) = "B"
\* ---------------------------------------------------------------- C13
\* C13: in CSV mode every data row has its fields in the order of the
\* header Song, Show, Type: the theme, the title of the show, the type.
C13_CsvRowOrder ==
    output_mode = "CSV" =>
        \A k \in 1..Len(stdout) :
            stdout[k].kind = "row" =>
                LET show == dictionary[stdout[k].id] IN
                /\ stdout[k].fields[1] \in Range(Concat(show))
                /\ stdout[k].fields[2] = show.title
                /\ stdout[k].fields[3] \in {"OP", "ED", "ST"}

\* ---------------------------------------------------------------- C14
\* C14 (as stated): the draws of one run number at most the length of the
\* list times the count asked of the loop.
C14_DrawsBounded == draws <= Len(list) * number_of_results

\* C14 (amended): every draw either visits a new value (at most list.len()
\* of them), or ends an iteration (at most number_of_results of them), or
\* is a redraw of a visited value before exhaustion, which changes nothing
\* and of which there may be any number.
C14_DrawsAccounted ==
    /\ [](Len(prev_res) <= Len(list) /\ Len(loop_res) <= number_of_results)
    /\ [][pc = "loop" =>
            LET v == list[res'] IN
            \/ /\ v \notin Range(prev_res)
               /\ prev_res' = Append(prev_res, v)
            \/ /\ prev_res' = prev_res
               /\ Len(loop_res') = Len(loop_res) + 1
            \/ /\ v \in Range(prev_res) /\ Len(prev_res) < Len(list)
               /\ UNCHANGED <<prev_res, loop_res, pc, table, stdout>>]_vars

\* a second draw hit the value visited by the first and changed nothing
C14_Witness ==
    /\ pc = "loop" /\ draws >= 2
    /\ Len(list) = 2 /\ Len(prev_res) = 1 /\ loop_res = <<>>
    /\ list[res] \in Range(prev_res)

\* ---------------------------------------------------------------- C15
\* the lines after the lowering of the count have been reached
PastLower == pc \in {"before", "loop", "match", "after"} \/ res # 0

\* C15: result_loop never runs with a count above list.len(): a larger
\* request is lowered to exactly list.len() without --hard-fail; with it
\* run fails before the loop, with no header and no row.
C15_LoopCountWithinLength ==
    /\ PastLower => number_of_results <= Len(list)
    /\ (PastLower /\ requested > Len(list)) =>
          ~hard_fail /\ number_of_results = Len(list)
    /\ (ConfigOK /\ hard_fail /\ requested > Len(list)) =>
          /\ pc \in {"check", "lower", "exit"}
          /\ pc = "exit" => exit_code = 1
          /\ res = 0 /\ prev_res = <<>> /\ loop_res = <<>> /\ result = "none"
          /\ table = NoTable /\ stdout = <<>>

\* run failed on the count with --hard-fail, in the mode that has a header
C15_Witness ==
    /\ pc = "exit" /\ exit_code = 1 /\ hard_fail /\ ConfigOK
    /\ requested > Len(list) /\ output_mode = "CSV"
\* ---------------------------------------------------------------- C16
\* the value leads to a show whose three theme lists are empty
Themeless(v) ==
    /\ v \in DOMAIN dictionary
    /\ dictionary[v].opening_themes = <<>>
    /\ dictionary[v].ending_themes = <<>>
    /\ dictionary[v].other_soundtrack = <<>>

\* C16: no row is ever of a themeless show; the draw of a new value that
\* leads to one marks it visited and does nothing else, the iteration
\* going on with another draw; the value stays visited, and a later draw
\* of it emits nothing.
C16_ThemelessDeadEnd ==
    /\ [](\A k \in 1..Len(Emitted) : ~Themeless(Emitted[k].id))
    /\ [][(pc = "loop" /\ Themeless(list[res'])) =>
            IF list[res'] \notin Range(prev_res)
            THEN /\ prev_res' = Append(prev_res, list[res'])
                 /\ UNCHANGED <<loop_res, pc, table, stdout>>
            ELSE UNCHANGED <<prev_res, table, stdout>>]_vars
    /\ [][\A v \in Range(prev_res) : Themeless(v) => v \in Range(prev_res')]_vars

\* a themeless show was visited first, then the row of another show ended
\* the same iteration with success
C16_Witness ==
    /\ Len(prev_res) = 2 /\ Themeless(prev_res[1])
    /\ loop_res = <<"Ok">> /\ Len(Emitted) = 1 /\ Emitted[1].id = prev_res[2]

\* ---------------------------------------------------------------- C17
\* C17: the draw of a new value that is not a key of the dictionary adds
\* the value to the visited ones and changes nothing else of the run: no
\* row, no outcome, the same iteration draws again.
C17_AbsentOnlyVisited ==
    [][(pc = "loop" /\ list[res'] \notin Range(prev_res)
                    /\ list[res'] \notin DOMAIN dictionary) =>
          /\ prev_res' = Append(prev_res, list[res'])
          /\ chosen' = 0
          /\ UNCHANGED <<loop_res, pc, table, stdout, number_of_results, result,
                         exit_code, inputs>>]_vars

\* an absent value was visited first and the only result asked for was
\* still delivered
C17_Witness ==
    /\ Len(prev_res) = 2 /\ prev_res[1] \notin DOMAIN dictionary
    /\ number_of_results = 1 /\ result = "Ok" /\ Len(Emitted) = 1

\* ---------------------------------------------------------------- C18
\* C18: the visited values only grow, hold no value twice, are values of
\* the list, and are never more than list.len().
C18_VisitedGrows ==
    /\ [](/\ \A a, b \in 1..Len(prev_res) : a # b => prev_res[a] # prev_res[b]
          /\ Range(prev_res) \subseteq Range(list)
          /\ Len(prev_res) <= Len(list))
    /\ [][/\ Len(prev_res') >= Len(prev_res)
          /\ SubSeq(prev_res', 1, Len(prev_res)) = prev_res]_vars

\* every position of a list of two values was visited and the run ended
C18_Witness ==
    /\ pc = "exit" /\ Len(list) = 2 /\ Len(prev_res) = 2 /\ draws >= 2

\* ---------------------------------------------------------------- C19
\* the number of positions of s that hold x
CountOf(s, x) == Cardinality({ k \in 1..Len(s) : s[k] = x })

\* C19: when result_loop returns, each of its number_of_results iterations
\* has recorded one outcome, success or failure; the rows emitted are at
\* least as many as the successes (a row whose write failed may still get
\* through), never more than number_of_results and never more than the
\* distinct values of the list that lead to a show with a theme.
C19_IterationsAccounted ==
    /\ result # "none" =>
          /\ Len(loop_res) = number_of_results
          /\ CountOf(loop_res, "Ok") + CountOf(loop_res, "Err") = number_of_results
    /\ CountOf(loop_res, "Ok") <= Len(Emitted)
    /\ Len(Emitted) <= CountOf(loop_res, "Ok") + write_errors
    /\ Len(Emitted) <= number_of_results
    /\ Len(Emitted) <= Cardinality({ v \in Range(list) : Themed(v) })

\* two iterations, one success and one failure, one themed value
C19_Witness ==
    /\ pc = "exit" /\ result = "Err" /\ number_of_results = 2
    /\ CountOf(loop_res, "Ok") = 1 /\ CountOf(loop_res, "Err") = 1
    /\ Len(Emitted) = 1 /\ Cardinality({ v \in Range(list) : Themed(v) }) = 1
====
